---- MODULE Spec2Model ----
(***************************************************************************)
(* Kernel execution orchestrator of the Jupyter connector                  *)
(* (connector-jupyter/production/mstr_jupyter/static/jupyter-kernel.js).   *)
(*                                                                         *)
(* One JupyterKernel instance submits code to the notebook kernel with     *)
(* kernel.execute(code, callbacks, options).  The kernel answers with one  *)
(* shell reply and any number of iopub output messages, in any order.      *)
(* Each execute() builds a closure (expectedId, that, solution,            *)
(* responseNumber, the promise and its poller); the model keeps one such   *)
(* closure per correlation id.  Promise reactions run from a FIFO          *)
(* microtask queue; channel callbacks and timers are macrotasks and run    *)
(* only when that queue is empty.                                          *)
(***************************************************************************)
EXTENDS Integers, Sequences, FiniteSets, TLC

(***************************************************************************)
(* Bounds of the model.                                                    *)
(***************************************************************************)
\* number of execute() calls in one run (values of window.jupyterKernelUniqueID)
MaxSub == 2
\* retry budget of waitForAllCallbacks; the source uses 100, the model scales it
RetryBudget == 1
\* iopub output messages the kernel sends for one submission
MaxOutputs == 2
\* largest argument given to stream()
MaxStreamIndex == 1
\* longest collection handed to applySameOnEachElement
MaxLen == 2
\* tick budget of awaitAll(instances, true); the source uses 400, the model scales it
AwaitBudget == 2
\* continuations registered with then() and done() in one run
MaxThen == 3
MaxPayload == 3
MsgIdBudget == 1        \* retries of getMsgId before it rejects (100 in the source)

Instances == {1, 2}
Subs == 1..MaxSub
\* '' is what the constructor leaves in codeString
Codes == {"", "a"}
ShellStatuses == {"ok", "error"}

\* jupyter-kernel.js:61-73
replyMessageTypes ==
  [stream |-> "stream", executeResult |-> "execute_result",
   displayData |-> "display_data", updateDisplayData |-> "update_display_data",
   executeInput |-> "execute_input", error |-> "error"]

OutputKinds ==
  {replyMessageTypes.stream, replyMessageTypes.executeResult,
   replyMessageTypes.displayData, replyMessageTypes.updateDisplayData,
   replyMessageTypes.executeInput, replyMessageTypes.error}

VARIABLES
  jupyterKernelUniqueID, \* window.jupyterKernelUniqueID
  _id,                   \* this._id, per instance
  codeString,            \* this.codeString
  shellOnly,             \* this.shellOnly
  expectStreamIndex,     \* this.expectStreamIndex, 0 for undefined
  customCallbacks,       \* TRUE when setCallbacks installed caller handlers
  command,               \* this.command: 0 = Promise.resolve({}), s = promise of submission s
  result,                \* this.result: 0 = {}, s = the solution object of s, -1 = undefined
  that,                  \* per submission: the snapshot { ...this } taken by execute()
  solution,              \* per submission: the ReplySlot
  responseNumber,        \* per submission: accepted output replies counted so far
  promise,               \* per submission: the promise of executePythonCodeInBackground
  timer,                 \* per submission: retryNumber of the scheduled waitForAllCallbacks, 0 = none
  shellReply,            \* per submission: status of the shell reply the kernel has sent, "none" before
  outputsDelivered,      \* per submission: iopub messages delivered so far
  customCalls,           \* per submission: calls made to the caller-supplied handlers
  lateReply,             \* per submission: a reply of it was delivered after a newer execute() on its instance
  caught,                \* per submission: the value handed to the catch callback
  commandState,          \* per submission: state of executePythonCodeInBackground().catch(...)
  origin,                \* per submission: who called execute()
  conts,                 \* per submission: continuations waiting on its command
  microtasks,            \* promise reaction jobs, FIFO
  turn,                  \* the instance whose call chain code()...execute() is being written, 0 = none
  doneFlag,              \* this.doneFlag, per instance
  allPromise,            \* the promise of Promise.all(allPromises) in awaitAll(instances)
  awaiting,              \* the promise, retryCount and interval of awaitAll(instances, true)
  thens,                 \* history: the continuations registered so far, with their invocations
  issued,                \* history: the ids returned by get id(), with the instance that drew them
  lastOutput,            \* history: msg_type of the last iopub message delivered
  expectJSON,            \* this.expectJSON, per instance
  content,               \* per submission: text and data.parsed of the message in solution.output
  raised,                \* the error thrown by the last call of getResult or parseResult,
                         \* "none" when it returned
  returned,              \* the value returned by the last call of getResult or parseResult
  parseInput,            \* history: the payload and the expectJSON of the last parseResult call
  misuse,                \* history: the last call of then, applySameOnEachElement or execute
                         \* made with an argument that is not a function, and what it threw
  marked,                \* history, per instance: shell() was called since the last execute()
  msgId,                 \* this.msgId, per instance: the handle kernel.execute returned, 0 = none
  request                \* the promise and the poller of the last read of getMsgId

vars ==
  <<jupyterKernelUniqueID, _id, codeString, shellOnly, expectStreamIndex,
    customCallbacks, command, result, that, solution, responseNumber, promise,
    timer, shellReply, outputsDelivered, customCalls, lateReply, caught,
    commandState, origin, conts, microtasks, turn, doneFlag, allPromise, awaiting,
    thens, issued, lastOutput, expectJSON, content, raised, returned,
    parseInput, misuse, marked, msgId, request>>

instVars == <<_id, codeString, shellOnly, expectStreamIndex, customCallbacks, command, result>>
subVars ==
  <<that, solution, responseNumber, promise, timer, shellReply,
    outputsDelivered, customCalls, lateReply, caught, commandState, origin>>

joinVars == <<doneFlag, allPromise, awaiting>>
resultVars == <<expectJSON, content, raised, returned, parseInput>>
handleVars == <<marked, msgId, request>>
callVars == <<resultVars, misuse, handleVars>>

NoThat == [inst |-> 0, _id |-> 0, codeString |-> "", shellOnly |-> FALSE,
           expectStreamIndex |-> 0, customCallbacks |-> FALSE, expectJSON |-> TRUE]
NoSolution == [code |-> "", shell |-> "null", output |-> "absent"]
NoPromise == [state |-> "none", value |-> "none"]
NoCalls == [reply |-> 0, output |-> 0]
\* a continuation's callback: its kind, the code it submits, its place in the collection
NoCallback == [kind |-> "none", item |-> "", index |-> 0]
DirectCall == [kind |-> "direct", item |-> "", index |-> 0]
\* JavaScript values as token sequences: undefined, null, and what no call returned yet
Undefined == <<"undefined">>
Null == <<"null">>
NoValue == <<"none">>
NoContent == [text |-> <<>>, parsed |-> Undefined, json |-> TRUE]
\* an Error object: what it is, and the payload it carries (NoValue for none)
NoError == [name |-> "none", payload |-> NoValue]
\* the last call of getResult or parseResult: the instance and the value returned
NoReturn == [call |-> "none", inst |-> 0, value |-> NoValue]
NoMisuse == [call |-> "none", error |-> "none"]
\* a truthy argument that is not a function, and the callback handed to applySameOnEachElement
NotAFunction == [kind |-> "object", item |-> "", index |-> 0]
EachFunction == [kind |-> "function", item |-> "", index |-> 0]
NoAll == [state |-> "none", elements |-> <<>>, remaining |-> 0]
NoAwait == [state |-> "none", instances |-> {}, retryCount |-> 0, interval |-> FALSE]
\* no getMsgId read yet: the promise, the instance, the handle it resolved with, the
\* argument of the scheduled returnId and whether its timer is armed
NoRequest == [state |-> "none", inst |-> 0, value |-> 0, retry |-> 0, timer |-> FALSE]

\* jupyter-kernel.js:20-33 and main.js:22
Init ==
  /\ jupyterKernelUniqueID = 0
  /\ _id = [i \in Instances |-> 0]
  /\ codeString = [i \in Instances |-> ""]
  /\ shellOnly = [i \in Instances |-> FALSE]
  /\ expectStreamIndex = [i \in Instances |-> 0]
  /\ customCallbacks = [i \in Instances |-> FALSE]
  /\ command = [i \in Instances |-> 0]
  /\ result = [i \in Instances |-> 0]
  /\ that = [s \in Subs |-> NoThat]
  /\ solution = [s \in Subs |-> NoSolution]
  /\ responseNumber = [s \in Subs |-> 0]
  /\ promise = [s \in Subs |-> NoPromise]
  /\ timer = [s \in Subs |-> 0]
  /\ shellReply = [s \in Subs |-> "none"]
  /\ lateReply = [s \in Subs |-> FALSE]
  /\ outputsDelivered = [s \in Subs |-> 0]
  /\ customCalls = [s \in Subs |-> NoCalls]
  /\ caught = [s \in Subs |-> "none"]
  /\ commandState = [s \in Subs |-> "none"]
  /\ origin = [s \in Subs |-> NoCallback]
  /\ conts = [s \in Subs |-> <<>>]
  /\ microtasks = <<>>
  /\ turn = 0
  /\ doneFlag = [i \in Instances |-> FALSE]
  /\ allPromise = NoAll
  /\ awaiting = NoAwait
  /\ thens = <<>>
  /\ issued = <<>>
  /\ lastOutput = "none"
  /\ expectJSON = [i \in Instances |-> TRUE]
  /\ content = [s \in Subs |-> NoContent]
  /\ raised = NoError
  /\ returned = NoReturn
  /\ parseInput = [text |-> <<>>, json |-> TRUE]
  /\ misuse = NoMisuse
  /\ marked = [i \in Instances |-> FALSE]
  /\ msgId = [i \in Instances |-> 0]
  /\ request = NoRequest

(***************************************************************************)
(* Helpers of executePythonCodeInBackground.                               *)
(***************************************************************************)
\* a test that takes every string, the empty one too, for a filled field
TruthyNotNull(v) == v # "null"

\* !!value for the values a ReplySlot can hold
Truthy(v) == v # "" /\ v # "null"

\* Object.values(solution): the output key exists only when the submission is not shell-only
SolutionValues(sol) ==
  IF sol.output = "absent" THEN <<sol.code, sol.shell>> ELSE <<sol.code, sol.shell, sol.output>>

\* a poller that looks at the completion field only
AllFilledShellOnly(sol) == Truthy(sol.code) /\ Truthy(sol.shell)

\* Object.values(solution).every((value) => !!value)
AllFilled(sol) == \A k \in DOMAIN SolutionValues(sol) : Truthy(SolutionValues(sol)[k])

\* resolve(v) and reject(v) of a promise: only the first call settles it
Resolve(p, v) == IF p.state = "pending" THEN [state |-> "resolved", value |-> v] ELSE p
Reject(p, v) == IF p.state = "pending" THEN [state |-> "rejected", value |-> v] ELSE p
Settles(old, new) == old.state = "pending" /\ new.state # "pending"

\* a poller that looks at the slot before it looks at the retry number
WaitForAllCallbacksFilledFirst(p, sol, retryNumber) ==
  IF AllFilled(sol) THEN Resolve(p, "solution")
  ELSE IF retryNumber > RetryBudget THEN Reject(p, "timeoutError") ELSE p

\* one run of waitForAllCallbacks(retryNumber) on promise p with slot sol
WaitForAllCallbacks(p, sol, retryNumber) ==
  LET p1 == IF retryNumber > RetryBudget THEN Reject(p, "timeoutError") ELSE p
  IN IF AllFilled(sol) THEN Resolve(p1, "solution") ELSE p1

\* the test 'expectedId !== that._id' of both callbacks: expectedId is the id drawn by
\* execute(), that._id the field of the snapshot { ...this } taken right after
IsStale(s) == s # that[s]._id

\* a list of accepted kinds that also holds display_data
SuccessRepliesWithDisplay(i) ==
  {replyMessageTypes.executeResult, replyMessageTypes.stream, replyMessageTypes.displayData}

\* get successReplies, read through the bound replySuccessful, i.e. on the live instance
SuccessReplies(i) ==
  IF expectStreamIndex[i] # 0
  THEN {replyMessageTypes.executeResult, replyMessageTypes.stream}
  ELSE {replyMessageTypes.executeResult}

ReplySuccessful(i, reply) == reply \in SuccessReplies(i)

\* a slot kept on the instance, so that callbacks write the newest submission's slot
SolutionOfInstance(s) == _id[that[s].inst]

\* a slot kept beside window.jupyterKernelUniqueID, shared by all instances
SolutionOfWindow(s) == jupyterKernelUniqueID

\* the solution object a callback of submission s writes to: the closure's own constant
SolutionOf(s) == s

\* reaction jobs; reg is the place of a then() continuation in the history thens
CatchJob(s) ==
  [type |-> "catch", inst |-> that[s].inst, from |-> s, callback |-> NoCallback, reg |-> 0]
ThenJob(i, p, cb, n) == [type |-> "then", inst |-> i, from |-> p, callback |-> cb, reg |-> n]
\* the reaction Promise.all attaches to the command p of instance i
AllJob(i, p) == [type |-> "all", inst |-> i, from |-> p, callback |-> NoCallback, reg |-> 0]

\* the reaction job of .catch(catchCallback) is queued when the promise settles
QueueCatch(s, old, new) ==
  microtasks' = IF Settles(old, new) THEN Append(microtasks, CatchJob(s)) ELSE microtasks

\* the continuations that call execute(): those of SubmitCallbacks and EachCallback
Submits(cb) == cb.kind \in {"then", "each"}

RECURSIVE CountSubmits(_)
CountSubmits(q) ==
  IF q = <<>> THEN 0
  ELSE (IF q[1].type = "then" /\ Submits(q[1].callback) THEN 1 ELSE 0)
       + CountSubmits(Tail(q))

RECURSIVE SumConts(_)
SumConts(S) ==
  IF S = {} THEN 0
  ELSE LET s == CHOOSE x \in S : TRUE IN CountSubmits(conts[s]) + SumConts(S \ {s})

\* execute() calls still to come from registered continuations
PendingSubmits == CountSubmits(microtasks) + SumConts(Subs)

\* a completion callback that polls whatever the status
ShellReplyOutcomePolls(p, sol, status) == WaitForAllCallbacks(p, sol, 0)

\* the completion callback's verdict: poll on an ok execute_reply, reject with the slot otherwise
ShellReplyOutcome(p, sol, status) ==
  IF status = "ok" THEN WaitForAllCallbacks(p, sol, 0) ELSE Reject(p, "solution")

\* the code property read from a rejection value: the slot has one, the Error object none
RejectionCode(s, v) == IF v = "solution" THEN solution[s].code ELSE "undefined"

(***************************************************************************)
(* execute(): draws the id, snapshots the instance, creates the slot and   *)
(* the promise, hands the code to the channel and stores the command.      *)
(* cs, so, cc are the instance's codeString, shellOnly and customCallbacks *)
(* at the call; o records the caller.                                      *)
(***************************************************************************)
\* a counter kept on the instance: the next id follows the instance's own last id
NextIdOfInstance(counter, own) == own + 1

\* get id(): window.jupyterKernelUniqueID += 1, whatever the instance's own this._id
NextId(counter, own) == counter + 1

Dispatch(i, cs, so, cc, o) ==
  LET id == NextId(jupyterKernelUniqueID, _id[i]) IN
  /\ jupyterKernelUniqueID < MaxSub
  /\ jupyterKernelUniqueID' = id
  /\ _id' = [_id EXCEPT ![i] = id]
  /\ codeString' = [codeString EXCEPT ![i] = cs]
  /\ shellOnly' = [shellOnly EXCEPT ![i] = so]
  /\ customCallbacks' = [customCallbacks EXCEPT ![i] = cc]
  /\ that' = [that EXCEPT ![id] =
       [inst |-> i, _id |-> id, codeString |-> cs, shellOnly |-> so,
        expectStreamIndex |-> expectStreamIndex[i], customCallbacks |-> cc,
        expectJSON |-> expectJSON[i]]]
  /\ solution' = [solution EXCEPT ![id] =
       [code |-> cs, shell |-> "null", output |-> IF so THEN "absent" ELSE "null"]]
  /\ promise' = [promise EXCEPT ![id] = [state |-> "pending", value |-> "none"]]
  /\ commandState' = [commandState EXCEPT ![id] = "pending"]
  /\ command' = [command EXCEPT ![i] = id]
  /\ origin' = [origin EXCEPT ![id] = o]
  /\ issued' = Append(issued, [id |-> id, inst |-> i])
  /\ marked' = [marked EXCEPT ![i] = FALSE]
  /\ msgId' = [msgId EXCEPT ![i] = id]
  /\ UNCHANGED <<expectStreamIndex, responseNumber, timer, shellReply,
                 outputsDelivered, customCalls, lateReply, caught>>

(***************************************************************************)
(* parseResult() and getResult().  A text is a sequence of characters; a   *)
(* value is a sequence of tokens: a string is "string", its characters,    *)
(* "end"; a number is "number", its digits, "end"; an array is "array",    *)
(* its element, "end"; an object is "object", its key, its value, "end".   *)
(***************************************************************************)
SingleQuote == "'"
DoubleQuote == "\""
Backslash == "\\"
Slash == "/"
Digits == {"1", "2"}

StringValue(chars) == <<"string">> \o chars \o <<"end">>

\* String.prototype.replace with a global pattern: every match, left to right
RECURSIVE ReplaceAll(_, _, _)
ReplaceAll(text, pattern, by) ==
  IF Len(text) < Len(pattern) THEN text
  ELSE IF SubSeq(text, 1, Len(pattern)) = pattern
  THEN by \o ReplaceAll(SubSeq(text, Len(pattern) + 1, Len(text)), pattern, by)
  ELSE <<text[1]>> \o ReplaceAll(Tail(text), pattern, by)

\* a normalization that leaves single quotes alone
NormalizeEscapes(text) ==
  ReplaceAll(ReplaceAll(text, <<Backslash, Backslash, DoubleQuote>>,
                        <<Backslash, DoubleQuote>>),
             <<Backslash, Backslash, Slash>>, <<Slash>>)

\* the three replace calls of parseResult
Normalize(text) ==
  LET quoted == ReplaceAll(text, <<SingleQuote>>, <<DoubleQuote>>)
      escapes == ReplaceAll(quoted, <<Backslash, Backslash, DoubleQuote>>,
                            <<Backslash, DoubleQuote>>)
  IN ReplaceAll(escapes, <<Backslash, Backslash, Slash>>, <<Slash>>)

\* output.charAt(0) === '"' ? output.slice(1, -1) : output
Unwrap(output) ==
  IF output # <<>> /\ output[1] = DoubleQuote
  THEN SubSeq(output, 2, Len(output) - 1)
  ELSE output

\* JSON.parse on texts over the characters of the model: strings with the escapes
\* \" \\ \/, numbers, arrays of one element and objects of one member
ParseFailed == [ok |-> FALSE, val |-> <<>>, next |-> 0]

RECURSIVE ScanString(_, _, _)
ScanString(text, k, chars) ==
  IF k > Len(text) THEN ParseFailed
  ELSE IF text[k] = DoubleQuote
  THEN [ok |-> TRUE, val |-> StringValue(chars), next |-> k + 1]
  ELSE IF text[k] = Backslash
  THEN IF k + 1 <= Len(text) /\ text[k + 1] \in {DoubleQuote, Backslash, Slash}
       THEN ScanString(text, k + 2, Append(chars, text[k + 1]))
       ELSE ParseFailed
  ELSE ScanString(text, k + 1, Append(chars, text[k]))

RECURSIVE ScanNumber(_, _, _)
ScanNumber(text, k, digits) ==
  IF k <= Len(text) /\ text[k] \in Digits
  THEN ScanNumber(text, k + 1, Append(digits, text[k]))
  ELSE [ok |-> TRUE, val |-> <<"number">> \o digits \o <<"end">>, next |-> k]

Closes(text, k, bracket) == k <= Len(text) /\ text[k] = bracket

RECURSIVE ParseValue(_, _)
ParseValue(text, k) ==
  IF k > Len(text) THEN ParseFailed
  ELSE IF text[k] = DoubleQuote THEN ScanString(text, k + 1, <<>>)
  ELSE IF text[k] \in Digits THEN ScanNumber(text, k, <<>>)
  ELSE IF text[k] = "["
  THEN IF Closes(text, k + 1, "]")
       THEN [ok |-> TRUE, val |-> <<"array", "end">>, next |-> k + 2]
       ELSE LET v == ParseValue(text, k + 1) IN
            IF v.ok /\ Closes(text, v.next, "]")
            THEN [ok |-> TRUE, val |-> <<"array">> \o v.val \o <<"end">>,
                  next |-> v.next + 1]
            ELSE ParseFailed
  ELSE IF text[k] = "{"
  THEN IF Closes(text, k + 1, "}")
       THEN [ok |-> TRUE, val |-> <<"object", "end">>, next |-> k + 2]
       ELSE IF ~Closes(text, k + 1, DoubleQuote) THEN ParseFailed
       ELSE LET key == ScanString(text, k + 2, <<>>) IN
            IF ~(key.ok /\ Closes(text, key.next, ":")) THEN ParseFailed
            ELSE LET v == ParseValue(text, key.next + 1) IN
                 IF v.ok /\ Closes(text, v.next, "}")
                 THEN [ok |-> TRUE,
                       val |-> <<"object">> \o key.val \o v.val \o <<"end">>,
                       next |-> v.next + 1]
                 ELSE ParseFailed
  ELSE ParseFailed

JSONParse(text) ==
  LET v == ParseValue(text, 1) IN
  IF v.ok /\ v.next = Len(text) + 1 THEN v ELSE ParseFailed

\* new Error('JupyterKernel error: result parsing failed'), and the TypeError of
\* reading a property of undefined or null
ParsingError == [name |-> "parsingError", payload |-> NoValue]
TypeError == [name |-> "typeError", payload |-> NoValue]

\* String.prototype.trim
RECURSIVE TrimStart(_)
TrimStart(text) == IF text # <<>> /\ text[1] = " " THEN TrimStart(Tail(text)) ELSE text
RECURSIVE TrimEnd(_)
TrimEnd(text) ==
  IF text # <<>> /\ text[Len(text)] = " " THEN TrimEnd(SubSeq(text, 1, Len(text) - 1)) ELSE text
Trim(text) == TrimEnd(TrimStart(text))

\* the message types whose content has a data field; a stream has content.text
HasData(kind) ==
  kind \in {replyMessageTypes.executeResult, replyMessageTypes.displayData,
            replyMessageTypes.updateDisplayData}

\* a parseResult that hands every text to JSON.parse
ParseOutcomeAlwaysJSON(kind, text, json) ==
  IF JSONParse(Unwrap(Normalize(text))).ok
  THEN [error |-> NoError, value |-> JSONParse(Unwrap(Normalize(text))).val]
  ELSE [error |-> ParsingError, value |-> NoValue]

\* parseResult on a message of the given type; json is this.expectJSON
ParseOutcome(kind, text, json) ==
  LET toParse == Unwrap(Normalize(text))
      parsed == JSONParse(toParse)
  IN
  IF ~HasData(kind)
  THEN IF kind = replyMessageTypes.stream
       THEN [error |-> NoError, value |-> StringValue(Trim(text))]
       ELSE [error |-> ParsingError, value |-> NoValue]
  ELSE IF ~json THEN [error |-> NoError, value |-> StringValue(toParse)]
  ELSE IF parsed.ok
  THEN [error |-> NoError, value |-> parsed.val]
  ELSE [error |-> ParsingError, value |-> NoValue]

\* v || null
Falsy(v) == v \in {Undefined, Null, StringValue(<<>>)}
\* a getResult that hands out the parsed field as it is
OrUndefined(v) == v

\* this.result.output.content.data.parsed || null
OrNull(v) == IF Falsy(v) THEN Null ELSE v

\* a getResult that answers null where there is nothing to read
GetResultOutcomeOrNull(r) ==
  IF r <= 0 THEN [error |-> NoError, value |-> Null]
  ELSE IF solution[r].output \in {"absent", "null"} THEN [error |-> NoError, value |-> Null]
  ELSE IF HasData(solution[r].output)
  THEN [error |-> NoError, value |-> OrNull(content[r].parsed)]
  ELSE IF solution[r].output = replyMessageTypes.stream
  THEN [error |-> NoError, value |-> OrNull(StringValue(Trim(content[r].text)))]
  ELSE [error |-> NoError, value |-> Null]

\* getResult() with this.result = r: {} (0), undefined (-1) or the slot of submission r
GetResultOutcome(r) ==
  IF r <= 0 THEN [error |-> TypeError, value |-> NoValue]
  ELSE IF solution[r].output \in {"absent", "null"} THEN [error |-> TypeError, value |-> NoValue]
  ELSE IF HasData(solution[r].output)
  THEN [error |-> NoError, value |-> OrNull(content[r].parsed)]
  ELSE IF solution[r].output = replyMessageTypes.stream
  THEN [error |-> NoError, value |-> OrNull(StringValue(Trim(content[r].text)))]
  ELSE [error |-> TypeError, value |-> NoValue]

\* the outcome of a call on instance i, kept in the history
Returns(call, i, outcome) ==
  /\ raised' = outcome.error
  /\ returned' = [call |-> call, inst |-> i, value |-> outcome.value]

\* instance.getResult(), called by the user outside a continuation
GetResult(i) ==
  /\ turn = 0
  /\ microtasks = <<>>
  /\ Returns("getResult", i, GetResultOutcome(result[i]))
  /\ UNCHANGED <<jupyterKernelUniqueID, instVars, subVars, conts, microtasks, turn,
                 joinVars, thens, issued, lastOutput, expectJSON, content, parseInput,
                 misuse, handleVars>>

\* instance.parseResult({ output: { content: { data: { 'text/plain': text } } } })
ParseResult(i, text) ==
  /\ turn = 0
  /\ microtasks = <<>>
  /\ parseInput' = [text |-> text, json |-> expectJSON[i]]
  /\ Returns("parseResult", i,
             ParseOutcome(replyMessageTypes.executeResult, text, expectJSON[i]))
  /\ UNCHANGED <<jupyterKernelUniqueID, instVars, subVars, conts, microtasks, turn,
                 joinVars, thens, issued, lastOutput, expectJSON, content, misuse,
                 handleVars>>

(***************************************************************************)
(* Builder methods, called by the user of the instance.                    *)
(***************************************************************************)
\* a code() that starts every chain from the constructor's reply settings
CodeResetting(i, c) ==
  /\ turn = 0
  /\ jupyterKernelUniqueID + PendingSubmits < MaxSub
  /\ turn' = i
  /\ codeString' = [codeString EXCEPT ![i] = c]
  /\ customCallbacks' = [customCallbacks EXCEPT ![i] = FALSE]
  /\ expectStreamIndex' = [expectStreamIndex EXCEPT ![i] = 0]
  /\ expectJSON' = [expectJSON EXCEPT ![i] = TRUE]
  /\ UNCHANGED <<jupyterKernelUniqueID, _id, shellOnly, command,
                 result, subVars, conts, microtasks, joinVars, thens,
                 issued, lastOutput, content, raised, returned, parseInput, misuse,
                 handleVars>>

\* code(input) with a string: this.customCallbacks = {}; this.codeString = input
Code(i, c) ==
  /\ turn = 0
  /\ jupyterKernelUniqueID + PendingSubmits < MaxSub
  /\ turn' = i
  /\ codeString' = [codeString EXCEPT ![i] = c]
  /\ customCallbacks' = [customCallbacks EXCEPT ![i] = FALSE]
  /\ UNCHANGED <<jupyterKernelUniqueID, _id, shellOnly, expectStreamIndex, command,
                 result, subVars, conts, microtasks, joinVars, thens,
                 issued, lastOutput, callVars>>

Shell(i) ==
  /\ turn = i
  /\ ~marked[i]
  /\ UNCHANGED turn
  /\ shellOnly' = [shellOnly EXCEPT ![i] = TRUE]
  /\ marked' = [marked EXCEPT ![i] = TRUE]
  /\ UNCHANGED <<jupyterKernelUniqueID, _id, codeString, expectStreamIndex,
                 customCallbacks, command, result, subVars, conts, microtasks, joinVars, thens,
                 issued, lastOutput, resultVars, misuse, msgId, request>>

Stream(i, n) ==
  /\ turn = i
  /\ expectStreamIndex[i] # n
  /\ UNCHANGED turn
  /\ expectStreamIndex' = [expectStreamIndex EXCEPT ![i] = n]
  /\ UNCHANGED <<jupyterKernelUniqueID, _id, codeString, shellOnly, customCallbacks,
                 command, result, subVars, conts, microtasks, joinVars, thens,
                 issued, lastOutput, callVars>>

ExpectString(i) ==
  /\ turn = i
  /\ expectJSON[i]
  /\ UNCHANGED turn
  /\ expectJSON' = [expectJSON EXCEPT ![i] = FALSE]
  /\ UNCHANGED <<jupyterKernelUniqueID, instVars, subVars, conts, microtasks, joinVars,
                 thens, issued, lastOutput, content, raised, returned, parseInput, misuse,
                 handleVars>>

SetCallbacks(i) ==
  /\ turn = i
  /\ ~customCallbacks[i]
  /\ UNCHANGED turn
  /\ customCallbacks' = [customCallbacks EXCEPT ![i] = TRUE]
  /\ UNCHANGED <<jupyterKernelUniqueID, _id, codeString, shellOnly, expectStreamIndex,
                 command, result, subVars, conts, microtasks, joinVars, thens,
                 issued, lastOutput, callVars>>

\* a check that lets every argument pass
VerifyCallbackTypeLax(input) == "none"

\* verifyCallbackType(input): throws when typeof input is not 'function'
VerifyCallbackType(input) == IF input.kind = "object" THEN "syntaxError" ELSE "none"

\* the call is kept in the history when its argument is not a function
LogMisuse(call, input) ==
  misuse' = IF input.kind = "object"
            THEN [call |-> call, error |-> VerifyCallbackType(input)]
            ELSE misuse

\* execute(_catchCallback); x is NoCallback when the call has no argument, and the
\* default handler then takes its place
ExecuteWith(i, x) ==
  /\ turn \in {0, i}
  /\ turn' = 0
  /\ jupyterKernelUniqueID + PendingSubmits < MaxSub
  /\ LogMisuse("execute", x)
  /\ IF VerifyCallbackType(x) # "none"
     THEN UNCHANGED <<jupyterKernelUniqueID, _id, codeString, shellOnly,
                      expectStreamIndex, customCallbacks, command, subVars, issued,
                      marked, msgId>>
     ELSE Dispatch(i, codeString[i], shellOnly[i], customCallbacks[i], DirectCall)
  /\ UNCHANGED <<result, conts, microtasks, joinVars, thens, lastOutput, resultVars,
                 request>>

Execute(i) == ExecuteWith(i, NoCallback)

(***************************************************************************)
(* then() and applySameOnEachElement(): this.command.then(...) at the call *)
(***************************************************************************)
\* a continuation that submits: (self) => self.code(item).shell().execute(...)
SubmitCallbacks == {[kind |-> "then", item |-> c, index |-> 0] : c \in Codes \ {""}}
\* the wrapper applySameOnEachElement registers for the k-th item: callback(item, self)
EachCallback(c, k) == [kind |-> "each", item |-> c, index |-> k]
Collections == UNION {[1..n -> Codes \ {""}] : n \in 1..MaxLen}

\* a promise whose reactions never wait
SettledAlways(p) == TRUE

\* the promise is settled: its reactions are queued at once
Settled(p) == p = 0 \/ commandState[p] \in {"fulfilled", "rejected"}

\* a forEach that walks the collection from its last element
RegisterLastFirst(i, jobs, coll) ==
  LET p == command[i]
      walked == [k \in 1..Len(jobs) |-> jobs[Len(jobs) + 1 - k]]
  IN
  /\ IF Settled(p)
     THEN /\ microtasks' = microtasks \o walked
          /\ UNCHANGED conts
     ELSE /\ conts' = [conts EXCEPT ![p] = @ \o walked]
          /\ UNCHANGED microtasks
  /\ thens' = thens \o [k \in 1..Len(jobs) |->
                 [inst |-> i, from |-> p, callback |-> jobs[k].callback,
                  calls |-> 0, out |-> 0, coll |-> coll]]

\* attach the jobs to this.command: queued at once when it is already settled; coll is
\* the collection the jobs were made for (history, empty for then() and done())
Register(i, jobs, coll) ==
  LET p == command[i] IN
  /\ IF Settled(p)
     THEN /\ microtasks' = microtasks \o jobs
          /\ UNCHANGED conts
     ELSE /\ conts' = [conts EXCEPT ![p] = @ \o jobs]
          /\ UNCHANGED microtasks
  /\ thens' = thens \o [k \in 1..Len(jobs) |->
                 [inst |-> i, from |-> p, callback |-> jobs[k].callback,
                  calls |-> 0, out |-> 0, coll |-> coll]]

Then(i, cb) ==
  /\ turn = 0
  /\ jupyterKernelUniqueID + PendingSubmits < MaxSub
  /\ Len(thens) < MaxThen
  /\ LogMisuse("then", cb)
  /\ IF VerifyCallbackType(cb) # "none"
     THEN UNCHANGED <<conts, microtasks, thens>>
     ELSE Register(i, <<ThenJob(i, command[i], cb, Len(thens) + 1)>>, <<>>)
  /\ UNCHANGED <<jupyterKernelUniqueID, instVars, subVars, turn, joinVars, issued,
                 lastOutput, resultVars, handleVars>>

\* applySameOnEachElement(iterableObject, callback)
ApplySameOnEachElement(i, coll, callback) ==
  /\ turn = 0
  /\ jupyterKernelUniqueID + PendingSubmits + Len(coll) <= MaxSub
  /\ Len(thens) + Len(coll) <= MaxThen
  /\ LogMisuse("applySameOnEachElement", callback)
  /\ IF VerifyCallbackType(callback) # "none"
     THEN UNCHANGED <<conts, microtasks, thens>>
     ELSE Register(i, [k \in 1..Len(coll) |->
                        ThenJob(i, command[i], EachCallback(coll[k], k), Len(thens) + k)],
                   coll)
  /\ UNCHANGED <<jupyterKernelUniqueID, instVars, subVars, turn, joinVars, issued,
                 lastOutput, resultVars, handleVars>>

\* done(): this.then((self) => { self.doneFlag = true; })
DoneCallback == [kind |-> "done", item |-> "", index |-> 0]
\* a continuation that reads the result: (self) => use(self.getResult())
GetResultCallback == [kind |-> "getResult", item |-> "", index |-> 0]

\* a done() that raises the flag in the call itself
DoneAtOnce(i) ==
  /\ turn = 0
  /\ doneFlag' = [doneFlag EXCEPT ![i] = TRUE]
  /\ UNCHANGED <<jupyterKernelUniqueID, instVars, subVars, conts, microtasks, turn,
                 allPromise, awaiting, thens, issued, lastOutput, callVars>>

Done(i) ==
  /\ turn = 0
  /\ Len(thens) < MaxThen
  /\ Register(i, <<ThenJob(i, command[i], DoneCallback, Len(thens) + 1)>>, <<>>)
  /\ UNCHANGED <<jupyterKernelUniqueID, instVars, subVars, turn, joinVars, issued,
                 lastOutput, callVars>>

(***************************************************************************)
(* Promise reaction jobs.                                                  *)
(***************************************************************************)
\* the value a continuation of promise p receives
OutOf(p) == IF p = 0 THEN 0 ELSE IF promise[p].state = "resolved" THEN p ELSE -1

\* a catch callback that hands the error on: throw error
RethrowingCatch(error) == "thrown"

\* the default catchCallback of execute(): two console.error calls, then it returns
DefaultCatch(error) == "returned"

\* the promise made by .catch(catchCallback): it takes over a fulfilment, and after a
\* rejection it fulfils when the callback returns and rejects when the callback throws
CatchOutcome(p) ==
  IF p.state = "rejected" /\ DefaultCatch(p.value) = "thrown" THEN "rejected" ELSE "fulfilled"

\* reaction of .catch(catchCallback): the command fulfils, with undefined after a rejection
RunCatch ==
  /\ turn = 0
  /\ microtasks # <<>>
  /\ microtasks[1].type = "catch"
  /\ LET s == microtasks[1].from IN
     /\ commandState' = [commandState EXCEPT ![s] = CatchOutcome(promise[s])]
     /\ caught' = [caught EXCEPT ![s] =
          IF promise[s].state = "rejected" THEN promise[s].value ELSE "none"]
     /\ microtasks' = Tail(microtasks) \o conts[s]
     /\ conts' = [conts EXCEPT ![s] = <<>>]
  /\ UNCHANGED <<jupyterKernelUniqueID, instVars, that, solution, responseNumber,
                 promise, timer, shellReply, outputsDelivered, customCalls, lateReply,
                 origin, turn, joinVars, thens, issued, lastOutput, callVars>>

\* reaction registered by then(): this.result = out; callback(this, out).  It has no
\* rejection handler: when the command is rejected the callback is not called.
RunThen ==
  /\ turn = 0
  /\ microtasks # <<>>
  /\ microtasks[1].type = "then"
  /\ LET job == microtasks[1] IN
     IF job.from # 0 /\ commandState[job.from] = "rejected"
     THEN UNCHANGED <<jupyterKernelUniqueID, instVars, subVars, doneFlag, thens, issued,
                      marked, msgId>>
     ELSE /\ thens' = [thens EXCEPT ![job.reg].calls = @ + 1,
                                    ![job.reg].out = OutOf(job.from)]
          /\ result' = [result EXCEPT ![job.inst] = OutOf(job.from)]
          /\ IF Submits(job.callback)
             THEN /\ Dispatch(job.inst, job.callback.item, TRUE, FALSE, job.callback)
                  /\ UNCHANGED doneFlag
             ELSE /\ doneFlag' = IF job.callback = DoneCallback
                                 THEN [doneFlag EXCEPT ![job.inst] = TRUE]
                                 ELSE doneFlag
                  /\ UNCHANGED <<jupyterKernelUniqueID, _id, codeString, shellOnly,
                                 expectStreamIndex, customCallbacks, command, subVars,
                                 issued, marked, msgId>>
  /\ LET job == microtasks[1] IN
     IF job.callback = GetResultCallback
        /\ ~(job.from # 0 /\ commandState[job.from] = "rejected")
     THEN Returns("getResult", job.inst, GetResultOutcome(OutOf(job.from)))
     ELSE UNCHANGED <<raised, returned>>
  /\ microtasks' = Tail(microtasks)
  /\ UNCHANGED <<conts, turn, allPromise, awaiting, lastOutput, expectJSON, content,
                 parseInput, misuse, request>>

(***************************************************************************)
(* awaitAll(instances): Promise.all over the instances' commands.          *)
(***************************************************************************)
\* allJupyterKernelInstances.map(({ command }) => command), with the reaction
\* Promise.all attaches to each, in the order of the array
RECURSIVE AllJobs(_)
AllJobs(insts) ==
  IF insts = {} THEN <<>>
  ELSE LET i == CHOOSE x \in insts : \A y \in insts : x <= y
       IN <<AllJob(i, command[i])>> \o AllJobs(insts \ {i})

QueuedAtOnce(job) == Settled(job.from)

AwaitAll(insts) ==
  /\ turn = 0
  /\ allPromise.state = "none"
  /\ allPromise' = [state |-> "pending", elements |-> [i \in insts |-> command[i]],
                    remaining |-> Cardinality(insts)]
  /\ microtasks' = microtasks \o SelectSeq(AllJobs(insts), QueuedAtOnce)
  /\ conts' = [s \in Subs |->
       conts[s] \o SelectSeq(AllJobs(insts), LAMBDA job : job.from = s /\ ~Settled(s))]
  /\ UNCHANGED <<jupyterKernelUniqueID, instVars, subVars, turn, doneFlag, awaiting,
                 thens, issued, lastOutput, callVars>>

\* Promise.all: rejected by the first rejected element, fulfilled by the last fulfilled one
AllOutcome(all, elementState) ==
  IF all.state # "pending" THEN all
  ELSE IF elementState = "rejected" THEN [all EXCEPT !.state = "rejected"]
  ELSE [all EXCEPT !.remaining = @ - 1,
                   !.state = IF all.remaining = 1 THEN "fulfilled" ELSE "pending"]

\* the reaction of Promise.all on one element
RunAll ==
  /\ turn = 0
  /\ microtasks # <<>>
  /\ microtasks[1].type = "all"
  /\ LET p == microtasks[1].from IN
     allPromise' = AllOutcome(allPromise, IF p = 0 THEN "fulfilled" ELSE commandState[p])
  /\ microtasks' = Tail(microtasks)
  /\ UNCHANGED <<jupyterKernelUniqueID, instVars, subVars, conts, turn, doneFlag,
                 awaiting, thens, issued, lastOutput, callVars>>

(***************************************************************************)
(* awaitAll(instances, true): an interval polls the instances' doneFlag.   *)
(***************************************************************************)
AwaitAllDone(insts) ==
  /\ turn = 0
  /\ awaiting.state = "none"
  /\ awaiting' = [state |-> "pending", instances |-> insts, retryCount |-> 0,
                  interval |-> TRUE]
  /\ UNCHANGED <<jupyterKernelUniqueID, instVars, subVars, conts, microtasks, turn,
                 doneFlag, allPromise, thens, issued, lastOutput, callVars>>

\* a test that is content with one finished instance
ReadySome(insts) == \E i \in insts : doneFlag[i]

\* allJupyterKernelInstances.every((instance) => instance.doneFlag)
Ready(insts) == \A i \in insts : doneFlag[i]

\* an interval callback without the retry budget
IntervalOutcomeNoBudget(a, ready) ==
  LET a1 == IF ready
            THEN [a EXCEPT !.interval = FALSE,
                           !.state = IF @ = "pending" THEN "resolved" ELSE @]
            ELSE a
  IN [a1 EXCEPT !.retryCount = @ + 1]

\* the interval callback on the promise, retryCount and interval of awaitAll
IntervalOutcome(a, ready) ==
  LET a1 == IF ready
            THEN [a EXCEPT !.interval = FALSE,
                           !.state = IF @ = "pending" THEN "resolved" ELSE @]
            ELSE a
      a2 == [a1 EXCEPT !.retryCount = @ + 1]
  IN IF a2.retryCount > AwaitBudget
     THEN [a2 EXCEPT !.interval = FALSE,
                     !.state = IF @ = "pending" THEN "rejected" ELSE @]
     ELSE a2

\* an interval callback that clears the flags at every tick
ResetDoneFlagsAtEveryTick(insts, ready) ==
  [i \in Instances |-> IF i \in insts THEN FALSE ELSE doneFlag[i]]

\* if (ready) allJupyterKernelInstances.forEach((instance) => { instance.doneFlag = false; })
ResetDoneFlags(insts, ready) ==
  IF ready
  THEN [i \in Instances |-> IF i \in insts THEN FALSE ELSE doneFlag[i]]
  ELSE doneFlag

\* the interval fires
IntervalTick ==
  /\ turn = 0
  /\ microtasks = <<>>
  /\ awaiting.interval
  /\ awaiting' = IntervalOutcome(awaiting, Ready(awaiting.instances))
  /\ doneFlag' = ResetDoneFlags(awaiting.instances, Ready(awaiting.instances))
  /\ UNCHANGED <<jupyterKernelUniqueID, instVars, subVars, conts, microtasks, turn,
                 allPromise, thens, issued, lastOutput, callVars>>

(***************************************************************************)
(* The channel: callbacks registered with kernel.execute, and the timer.   *)
(***************************************************************************)
Dispatched(s) == promise[s].state # "none"

\* the instance of s has called execute() again since s was dispatched
Superseded(s) == Dispatched(s) /\ _id[that[s].inst] # s

\* callbacks of the orchestrator that never call the caller's handler
CountCallDropped(s, field) == customCalls

\* clearedCustomCallbacks.shell.reply(out) and clearedCustomCallbacks.iopub.output(out):
\* the caller's handler when setCallbacks installed one, () => undefined otherwise
CountCall(s, field) ==
  IF that[s].customCallbacks
  THEN [customCalls EXCEPT ![s][field] = @ + 1]
  ELSE customCalls

\* a completion callback that starts the slot afresh before it stores the reply
WithShellFresh(sol, out) ==
  [sol EXCEPT !.shell = out, !.output = IF @ = "absent" THEN @ ELSE "null"]

\* solution.shell = out
WithShell(sol, out) == [sol EXCEPT !.shell = out]

\* shell.reply(out)
DeliverShellReply(s, status) ==
  /\ turn = 0
  /\ microtasks = <<>>
  /\ Dispatched(s)
  /\ shellReply[s] = "none"
  /\ shellReply' = [shellReply EXCEPT ![s] = status]
  /\ lateReply' = [lateReply EXCEPT ![s] = @ \/ Superseded(s)]
  /\ IF IsStale(s)
     THEN UNCHANGED <<customCalls, solution, shellOnly, promise, timer, microtasks>>
     ELSE LET t == SolutionOf(s)
              sol == WithShell(solution[t], status)
              p == ShellReplyOutcome(promise[s], sol, status)
          IN /\ customCalls' = CountCall(s, "reply")
             /\ solution' = [solution EXCEPT ![t] = sol]
             /\ shellOnly' = [shellOnly EXCEPT ![that[s].inst] = FALSE]
             /\ promise' = [promise EXCEPT ![s] = p]
             /\ timer' = [timer EXCEPT ![s] = IF status = "ok" THEN 1 ELSE @]
             /\ QueueCatch(s, promise[s], p)
  /\ UNCHANGED <<jupyterKernelUniqueID, _id, codeString, expectStreamIndex,
                 customCallbacks, command, result, that, responseNumber,
                 outputsDelivered, caught, commandState, origin, conts, turn,
                 doneFlag, allPromise, awaiting, thens, issued, lastOutput, callVars>>

\* a test that lets every accepted reply from the index on through
IsExpectedOrLater(n, index) == n >= index

\* responseNumber !== that.expectStreamIndex is false
IsExpected(n, index) == n = index

\* iopub.output(out), out.msg_type being kind
IopubOutput(s, kind) ==
  /\ turn = 0
  /\ microtasks = <<>>
  /\ Dispatched(s)
  /\ outputsDelivered[s] < MaxOutputs
  /\ outputsDelivered' = [outputsDelivered EXCEPT ![s] = @ + 1]
  /\ lateReply' = [lateReply EXCEPT ![s] = @ \/ Superseded(s)]
  /\ IF that[s].shellOnly
     THEN \* no handler of the orchestrator: formattedCallbacks falls back to the caller's
          /\ customCalls' = CountCall(s, "output")
          /\ UNCHANGED <<solution, responseNumber>>
     ELSE IF IsStale(s)
     THEN UNCHANGED <<customCalls, solution, responseNumber>>
     ELSE /\ customCalls' = CountCall(s, "output")
          /\ IF ReplySuccessful(that[s].inst, kind)
             THEN IF that[s].expectStreamIndex # 0
                  THEN /\ responseNumber' = [responseNumber EXCEPT ![s] = @ + 1]
                       /\ solution' =
                            IF ~IsExpected(responseNumber[s] + 1,
                                           that[s].expectStreamIndex)
                            THEN solution
                            ELSE [solution EXCEPT ![SolutionOf(s)].output = kind]
                  ELSE /\ solution' = [solution EXCEPT ![SolutionOf(s)].output = kind]
                       /\ UNCHANGED responseNumber
             ELSE UNCHANGED <<solution, responseNumber>>
  /\ UNCHANGED <<jupyterKernelUniqueID, instVars, that, promise, timer, shellReply,
                 caught, commandState, origin, conts, microtasks, turn, joinVars,
                 thens, issued>>

DeliverOutput(s, kind) == IopubOutput(s, kind) /\ UNCHANGED <<lastOutput, callVars>>

\* the same delivery, with the message type kept in the history
DeliverOutputLogged(s, kind) ==
  /\ IopubOutput(s, kind)
  /\ lastOutput' = kind
  /\ UNCHANGED callVars

\* the output callback stores the message in the slot
Fills(s, kind) ==
  /\ ~that[s].shellOnly
  /\ ~IsStale(s)
  /\ ReplySuccessful(that[s].inst, kind)
  /\ that[s].expectStreamIndex # 0
       => IsExpected(responseNumber[s] + 1, that[s].expectStreamIndex)

\* iopub.output(out) with out.content.data['text/plain'] or out.content.text being text:
\* a stored message is parsed at once when no stream index was asked for, with the
\* expectJSON of the live instance; content[s].json keeps the flag that was read and
\* raised the error that escapes the callback
DeliverOutputText(s, kind, text) ==
  /\ IopubOutput(s, kind)
  /\ lastOutput' = kind
  /\ LET json == expectJSON[that[s].inst]
         parses == Fills(s, kind) /\ that[s].expectStreamIndex = 0
         outcome == ParseOutcome(kind, text, json)
         \* solution.output.content.data.parsed = ... on a message without data
         stored == IF HasData(kind) THEN outcome
                   ELSE [error |-> TypeError, value |-> NoValue]
     IN /\ content' =
             IF Fills(s, kind)
             THEN [content EXCEPT ![SolutionOf(s)] =
                     [text |-> text,
                      parsed |-> IF parses /\ stored.error = NoError
                                 THEN stored.value ELSE Undefined,
                      json |-> json]]
             ELSE content
        /\ raised' = IF parses THEN stored.error ELSE raised
  /\ UNCHANGED <<expectJSON, returned, parseInput, misuse, handleVars>>

\* setTimeout(waitForAllCallbacks, 50, retryNumber + 1) fires; the source re-arms the
\* timer without end, the model stops counting one tick after the budget
Tick(s) ==
  /\ turn = 0
  /\ microtasks = <<>>
  /\ timer[s] >= 1
  /\ timer[s] <= RetryBudget + 1
  /\ LET p == WaitForAllCallbacks(promise[s], solution[SolutionOf(s)], timer[s]) IN
     /\ promise' = [promise EXCEPT ![s] = p]
     /\ QueueCatch(s, promise[s], p)
  /\ timer' = [timer EXCEPT ![s] = @ + 1]
  /\ UNCHANGED <<jupyterKernelUniqueID, instVars, that, solution, responseNumber,
                 shellReply, outputsDelivered, customCalls, lateReply, caught,
                 commandState, origin, conts, turn, joinVars, thens, issued,
                 lastOutput, callVars>>

\* the user's calls that configure and dispatch a submission
Submit ==
  \/ \E i \in Instances, c \in Codes : Code(i, c)
  \/ \E i \in Instances : Shell(i)
  \/ \E i \in Instances : SetCallbacks(i)
  \/ \E i \in Instances : Execute(i)

\* the channel's callbacks and the poller's timer
Channel ==
  \/ \E s \in Subs, status \in ShellStatuses : DeliverShellReply(s, status)
  \/ \E s \in Subs, kind \in OutputKinds : DeliverOutput(s, kind)
  \/ \E s \in Subs : Tick(s)

Next ==
  \/ Submit
  \/ RunCatch
  \/ Channel

Spec == Init /\ [][Next]_vars

\* timers fire and reaction jobs run; nothing obliges the kernel to answer
FairSpec == Spec /\ WF_vars(RunCatch) /\ \A s \in Subs : WF_vars(Tick(s))

\* submissions issued only from continuations, as the call sites in main.js do
Chaining ==
  \/ \E i \in Instances, cb \in SubmitCallbacks : Then(i, cb)
  \/ \E i \in Instances, coll \in Collections :
       ApplySameOnEachElement(i, coll, EachFunction)

NextChain ==
  \/ Chaining
  \/ RunCatch
  \/ RunThen
  \/ Channel

SpecChain == Init /\ [][NextChain]_vars

\* several instances submit, and the caller joins them with awaitAll(instances)
NextJoin ==
  \/ \E i \in Instances, c \in Codes : Code(i, c)
  \/ \E i \in Instances : Execute(i)
  \/ \E insts \in SUBSET Instances \ {{}} : AwaitAll(insts)
  \/ RunCatch
  \/ RunAll
  \/ Channel

SpecJoin == Init /\ [][NextJoin]_vars

\* submissions in every mode, the type of each iopub message being kept
NextOutputs ==
  \/ \E i \in Instances : Code(i, "a")
  \/ \E i \in Instances : Shell(i)
  \/ \E i \in Instances, n \in 1..MaxStreamIndex : Stream(i, n)
  \/ \E i \in Instances : Execute(i)
  \/ RunCatch
  \/ \E s \in Subs, status \in ShellStatuses : DeliverShellReply(s, status)
  \/ \E s \in Subs, kind \in OutputKinds : DeliverOutputLogged(s, kind)
  \/ \E s \in Subs : Tick(s)

SpecOutputs == Init /\ [][NextOutputs]_vars

\* calls made with and without a function as argument; the kernel sends no iopub message
NextMisuse ==
  \/ \E i \in Instances, c \in Codes : Code(i, c)
  \/ \E i \in Instances, x \in {NoCallback, NotAFunction} : ExecuteWith(i, x)
  \/ \E i \in Instances, cb \in SubmitCallbacks \cup {NotAFunction} : Then(i, cb)
  \/ \E i \in Instances, coll \in Collections, cb \in {EachFunction, NotAFunction} :
       ApplySameOnEachElement(i, coll, cb)
  \/ RunCatch
  \/ RunThen
  \/ \E s \in Subs, status \in ShellStatuses : DeliverShellReply(s, status)
  \/ \E s \in Subs : Tick(s)

SpecMisuse == Init /\ [][NextMisuse]_vars

\* chains of submissions that end with done()
NextDone ==
  \/ \E i \in Instances : Execute(i)
  \/ \E i \in Instances, cb \in SubmitCallbacks : Then(i, cb)
  \/ \E i \in Instances : Done(i)
  \/ RunCatch
  \/ RunThen
  \/ Channel

SpecDone == Init /\ [][NextDone]_vars

\* submissions that end with done(), joined with awaitAll(instances, true); the
\* kernel sends no iopub message
NextFlag ==
  \/ \E i \in Instances : Execute(i)
  \/ \E i \in Instances : Done(i)
  \/ \E insts \in SUBSET Instances \ {{}} : AwaitAllDone(insts)
  \/ IntervalTick
  \/ RunCatch
  \/ RunThen
  \/ \E s \in Subs, status \in ShellStatuses : DeliverShellReply(s, status)
  \/ \E s \in Subs : Tick(s)

SpecFlag == Init /\ [][NextFlag]_vars

\* the interval fires every 50 ms and reaction jobs run
FairSpecFlag == SpecFlag /\ WF_vars(IntervalTick) /\ WF_vars(RunCatch) /\ WF_vars(RunThen)

(***************************************************************************)
(* Properties.                                                             *)
(***************************************************************************)
Pending(s) == promise[s].state = "pending"

\* this step delivers a reply of s to its callbacks
ReplyStep(s) == shellReply'[s] # shellReply[s] \/ outputsDelivered'[s] # outputsDelivered[s]

\* C1: once the instance has called execute() again, every completion and output reply
\* of the earlier submission is dropped: no caller-supplied handler is called, the
\* instance's shellOnly flag and result stay as they are, no polling starts and the
\* earlier submission's promise is not settled.
C1_StaleRepliesDropped ==
  [][\A s \in Subs :
       (Superseded(s) /\ ReplyStep(s)) =>
         /\ customCalls'[s] = customCalls[s]
         /\ shellOnly' = shellOnly
         /\ result' = result
         /\ timer'[s] = timer[s]
         /\ promise'[s] = promise[s]]_vars

C3_EverySubmissionSettles ==
  \A s \in Subs : Dispatched(s) ~> (promise[s].state \in {"resolved", "rejected"})

\* C4: applySameOnEachElement never runs fn for an element while the submission fn
\* started for the previous element is still unsettled.
C4_ElementsOneAtATime ==
  \A s, t \in Subs :
    (/\ t = s + 1
     /\ origin[s].kind = "each" /\ origin[t].kind = "each"
     /\ origin[t].index = origin[s].index + 1
     /\ that[s].inst = that[t].inst)
    => ~(Pending(s) /\ Pending(t))

\* C5: two submissions issued on one instance from chained then() continuations are
\* never in flight at the same time.
C5_ChainedStepsOneAtATime ==
  \A s, t \in Subs :
    (/\ s # t
     /\ origin[s].kind = "then" /\ origin[t].kind = "then"
     /\ that[s].inst = that[t].inst)
    => ~(Pending(s) /\ Pending(t))

\* C6: a shell-only submission is resolved from the delivery of its ok completion reply
\* on, whatever output replies were or were not delivered.
C6_ShellOnlyResolvesAtReply ==
  \A s \in Subs :
    (Dispatched(s) /\ that[s].shellOnly /\ shellReply[s] = "ok") =>
      promise[s].state = "resolved"

\* C7: from the delivery of a completion reply that is not ok, the submission is
\* rejected, no poll was started for it, and the rejection value is the slot holding
\* that reply and the submitted code.
C7_FailureRejectsAtOnce ==
  \A s \in Subs :
    (shellReply[s] \notin {"none", "ok"}) =>
      /\ promise[s] = [state |-> "rejected", value |-> "solution"]
      /\ timer[s] = 0
      /\ solution[s].shell = shellReply[s]
      /\ RejectionCode(s, promise[s].value) = that[s].codeString

C7_Witness ==
  \E s \in Subs : shellReply[s] = "error" /\ caught[s] = "solution" /\ that[s].codeString # ""

\* C8: the value the error continuation receives for a timeout carries the submitted code.
C8_TimeoutCarriesCode ==
  \A s \in Subs :
    caught[s] = "timeoutError" => RejectionCode(s, caught[s]) = that[s].codeString

\* C9: a reply of a superseded submission never changes the slot of the newest
\* submission of its instance.
C9_StaleNeverWritesNewest ==
  [][\A s \in Subs :
       (Superseded(s) /\ ReplyStep(s)) =>
         solution'[_id[that[s].inst]] = solution[_id[that[s].inst]]]_vars

C9_Witness ==
  \E s \in Subs : lateReply[s] /\ solution[s].shell # "null" /\ Pending(_id[that[s].inst])

\* C10: a reply or poll tick of a submission leaves the slots, promises, pollers and
\* handler calls of every other instance's submissions, and the other instances' result
\* and shellOnly flag, unchanged.
C10_InstancesIsolated ==
  [][\A s \in Subs :
       (Dispatched(s) /\ (ReplyStep(s) \/ timer'[s] # timer[s])) =>
         /\ \A t \in Subs :
              (Dispatched(t) /\ that[t].inst # that[s].inst) =>
                /\ solution'[t] = solution[t]
                /\ promise'[t] = promise[t]
                /\ timer'[t] = timer[t]
                /\ customCalls'[t] = customCalls[t]
         /\ \A j \in Instances \ {that[s].inst} :
              result'[j] = result[j] /\ shellOnly'[j] = shellOnly[j]]_vars

C10_Witness ==
  \E s, t \in Subs :
    /\ s < t /\ Dispatched(t) /\ that[s].inst # that[t].inst
    /\ Pending(s) /\ solution[t].shell = "ok" /\ solution[s].shell = "ok"

\* C11: awaitAll(instances) is rejected as soon as the submission of one of the
\* instances is rejected: once the reactions to that rejection have run, the promise
\* of awaitAll is rejected, whatever the state of the other instances.
C11_FailsFast ==
  (/\ allPromise.state # "none"
   /\ microtasks = <<>>
   /\ \E i \in DOMAIN allPromise.elements :
        /\ allPromise.elements[i] # 0
        /\ promise[allPromise.elements[i]].state = "rejected")
  => allPromise.state = "rejected"

\* C12: a poll tick of awaitAll(instances, true) resolves it exactly when the doneFlag
\* of every instance is set at that tick: it is never resolved while some instance's
\* doneFlag is false, and it is resolved by the first tick that finds them all set.
C12_ResolvesWhenAllDone ==
  [][(awaiting.state = "pending" /\ awaiting' # awaiting) =>
       (awaiting'.state = "resolved" <=> \A i \in awaiting.instances : doneFlag[i])]_vars

C12_Witness ==
  /\ awaiting.state = "resolved"
  /\ awaiting.retryCount > 1
  /\ awaiting.instances = Instances

AwaitSettled == awaiting.state \in {"resolved", "rejected"}

\* C13: awaitAll(instances, true) always settles; it is rejected only by the tick that
\* exceeds the tick budget, and by that tick when the flags are not all set; once
\* settled its interval is cleared, no tick runs any more and the outcome never changes.
C13_SettlesAndStopsPolling ==
  /\ (awaiting.state = "pending") ~> AwaitSettled
  /\ [](AwaitSettled => ~awaiting.interval)
  /\ [](awaiting.state = "rejected" => awaiting.retryCount = AwaitBudget + 1)
  /\ [](awaiting.state = "pending" => awaiting.retryCount <= AwaitBudget)
  /\ [][AwaitSettled => awaiting' = awaiting]_vars

C13_Witness ==
  /\ awaiting.state = "rejected"
  /\ awaiting.retryCount = AwaitBudget + 1
  /\ \E i \in awaiting.instances : doneFlag[i]

\* the promise of submission p, or the initial command, is settled
SubmissionSettled(p) == p = 0 \/ promise[p].state \in {"resolved", "rejected"}

\* this step invokes the continuation registered as number r
Invoked(r) == thens'[r].calls = thens[r].calls + 1

\* C14: a step that sets an instance's doneFlag invokes a done() continuation of that
\* instance; the submission that was current when done() was called has settled, and
\* every continuation registered before it on that submission has been invoked.  The
\* step in which done() is called leaves every doneFlag as it is.
C14_DoneAfterEarlierContinuations ==
  [][/\ \A i \in Instances :
          (doneFlag'[i] /\ ~doneFlag[i]) =>
            \E r \in 1..Len(thens) :
              /\ thens[r].inst = i /\ thens[r].callback = DoneCallback
              /\ Invoked(r)
              /\ SubmissionSettled(thens[r].from)
              /\ \A q \in 1..(r - 1) :
                   (thens[q].inst = i /\ thens[q].from = thens[r].from) =>
                     thens[q].calls = 1
     /\ Len(thens') > Len(thens) => doneFlag' = doneFlag]_vars

C14_Witness ==
  \E i \in Instances, r \in 1..Len(thens), q \in 1..Len(thens) :
    /\ doneFlag[i] /\ q < r
    /\ thens[r].inst = i /\ thens[r].callback = DoneCallback /\ thens[r].calls = 1
    /\ thens[q].inst = i /\ thens[q].from = thens[r].from /\ thens[q].calls = 1
    /\ thens[r].from # 0

C16_DefaultHandlerAbsorbs ==
  \A s \in Subs :
    (promise[s].state = "rejected" /\ microtasks = <<>>) =>
      /\ caught[s] = promise[s].value
      /\ commandState[s] = "fulfilled"
      /\ \A r \in 1..Len(thens) :
           thens[r].from = s => (thens[r].calls = 1 /\ thens[r].out = -1)

C16_Witness ==
  \E s \in Subs, r \in 1..Len(thens) :
    /\ promise[s].state = "rejected" /\ caught[s] = "solution"
    /\ thens[r].from = s /\ thens[r].calls = 1 /\ thens[r].out = -1
    /\ result[thens[r].inst] = -1

\* C17: once a submission is resolved, or rejected because the retry budget was
\* exceeded, no poll tick runs for it any more.
C17_PollingStopsWhenSettled ==
  [][\A s \in Subs :
       (\/ promise[s].state = "resolved"
        \/ promise[s] = [state |-> "rejected", value |-> "timeoutError"])
       => timer'[s] = timer[s]]_vars

\* this step delivers an iopub message of one of the kinds to submission s
OutputStep(s, kinds) ==
  outputsDelivered'[s] # outputsDelivered[s] /\ lastOutput' \in kinds

\* C18: the delivery of an output reply of kind error to a submission that is not yet
\* settled rejects it in that step.
C18_ErrorOutputAborts ==
  [][\A s \in Subs :
       (Pending(s) /\ ~that[s].shellOnly /\ OutputStep(s, {replyMessageTypes.error}))
       => promise'[s].state = "rejected"]_vars

IgnoredKinds ==
  {replyMessageTypes.displayData, replyMessageTypes.updateDisplayData,
   replyMessageTypes.executeInput}

\* C19: the delivery of an output reply of kind display_data, update_display_data or
\* execute_input changes no slot, settles no submission and is not counted as a stream
\* reply, and no slot ever holds an output of one of these kinds.
C19_IgnoredKindsNeverFill ==
  /\ [](\A s \in Subs : solution[s].output \notin IgnoredKinds)
  /\ [][\A s \in Subs :
          OutputStep(s, IgnoredKinds) =>
            /\ solution' = solution
            /\ promise' = promise
            /\ responseNumber' = responseNumber]_vars

C19_Witness ==
  \E s \in Subs :
    /\ lastOutput \in IgnoredKinds
    /\ outputsDelivered[s] = 1 /\ \A t \in Subs \ {s} : outputsDelivered[t] = 0
    /\ Pending(s) /\ solution[s].shell = "ok" /\ solution[s].code # ""
    /\ that[s].expectStreamIndex # 0 /\ solution[s].output = "null"

\* the draws of instance i, in the order they were made
DrawsOf(i) == SelectSeq(issued, LAMBDA d : d.inst = i)

\* C20: every id drawn by execute() is greater than every id drawn before it, on
\* whatever instance, so no two submissions share an id; and this._id of an instance
\* is the id of its latest submission.
C20_IdsUniqueAndIncreasing ==
  /\ \A k \in 1..Len(issued) : \A j \in 1..(k - 1) : issued[j].id < issued[k].id
  /\ \A i \in Instances :
       _id[i] = IF DrawsOf(i) = <<>> THEN 0 ELSE DrawsOf(i)[Len(DrawsOf(i))].id

C20_Witness ==
  /\ Len(issued) >= 2
  /\ issued[1].inst # issued[2].inst
  /\ _id[issued[1].inst] = issued[1].id /\ _id[issued[2].inst] = issued[2].id

\* C21: in the slot of a submission, a completion field or an output field that is
\* filled stays filled in every later step.
C21_SlotOnlyFillsUp ==
  [][\A s \in Subs :
       Dispatched(s) =>
         /\ Truthy(solution[s].shell) => Truthy(solution'[s].shell)
         /\ (solution[s].output # "absent" /\ Truthy(solution[s].output))
              => (solution'[s].output # "absent" /\ Truthy(solution'[s].output))]_vars

C21_Witness ==
  \E s \in Subs :
    /\ solution[s].shell = "ok" /\ solution[s].output \in OutputKinds
    /\ outputsDelivered[s] = MaxOutputs /\ timer[s] > 1

\* C22: a call of then, applySameOnEachElement or execute whose argument is truthy and
\* not a function throws in the call, and the step of that call registers no
\* continuation, submits no code, draws no id and leaves the command, and every other
\* field of every instance and submission, as they are.
C22_MisuseThrowsWithoutEffect ==
  /\ [](misuse.call # "none" => misuse.error = "syntaxError")
  /\ [][misuse' # misuse =>
          UNCHANGED <<jupyterKernelUniqueID, instVars, subVars, conts, microtasks,
                      thens, issued, joinVars>>]_vars

C22_Witness ==
  /\ misuse = [call |-> "execute", error |-> "syntaxError"]
  /\ \E i \in Instances : codeString[i] # "" /\ command[i] # 0
  /\ Len(thens) >= 1

(***************************************************************************)
(* Reading results: submissions whose output carries a text, read with     *)
(* getResult() in a continuation or by the user.                           *)
(***************************************************************************)
Two == <<"2">>
Rows == <<"[", "{", SingleQuote, "a", SingleQuote, ":", "1", "}", "]">>
ScenarioTexts ==
  {Two, Rows, <<SingleQuote>> \o Rows \o <<SingleQuote>>,
   <<DoubleQuote>> \o Rows \o <<DoubleQuote>>, <<"a">>}
ResultKinds == {replyMessageTypes.executeResult, replyMessageTypes.error}

\* the instances whose results are read
Readers == {1}

NextResult ==
  \/ \E i \in Readers : Code(i, "a")
  \/ \E i \in Readers : Shell(i)
  \/ \E i \in Readers : ExpectString(i)
  \/ \E i \in Readers : Execute(i)
  \/ \E i \in Readers : Then(i, GetResultCallback)
  \/ \E i \in Readers : GetResult(i)
  \/ RunCatch
  \/ RunThen
  \/ \E s \in Subs : DeliverShellReply(s, "ok")
  \/ \E s \in Subs, kind \in ResultKinds : DeliverOutputText(s, kind, Two)
  \/ \E s \in Subs : Tick(s)

SpecResult == Init /\ [][NextResult]_vars

\* the continuation registered as the r-th is still waiting to run
Queued(r) ==
  \/ \E k \in DOMAIN microtasks : microtasks[k].type = "then" /\ microtasks[k].reg = r
  \/ \E s \in Subs : \E k \in DOMAIN conts[s] :
       conts[s][k].type = "then" /\ conts[s][k].reg = r

\* C24: applySameOnEachElement(collection, fn) invokes fn exactly once per element, in
\* collection order, each invocation receiving its element and the instance: a
\* continuation is registered per element, each is invoked once when its turn comes
\* and never again, none before the one of the previous element, and the submission fn
\* makes carries the element on the instance the call was made on.
C24_OncePerElementInOrder ==
  \A r \in DOMAIN thens :
    thens[r].callback.kind = "each" =>
      LET e == thens[r]
          k == e.callback.index
      IN /\ e.calls = IF Queued(r) THEN 0 ELSE 1
         /\ k \in DOMAIN e.coll
         /\ e.callback.item = e.coll[k]
         /\ k = 1 => \A n \in DOMAIN e.coll :
                       /\ r + n - 1 \in DOMAIN thens
                       /\ thens[r + n - 1].callback.kind = "each"
                       /\ thens[r + n - 1].callback.index = n
                       /\ thens[r + n - 1].coll = e.coll
                       /\ thens[r + n - 1].inst = e.inst
         /\ k > 1 => /\ r > 1
                     /\ thens[r - 1].coll = e.coll
                     /\ thens[r - 1].callback.index = k - 1
                     /\ e.calls = 1 => thens[r - 1].calls = 1
         /\ e.calls = 1 =>
              \E s \in Subs : /\ origin[s] = e.callback
                               /\ that[s].inst = e.inst
                               /\ that[s].codeString = e.coll[k]

C24_Witness ==
  \E r \in DOMAIN thens :
    /\ thens[r].callback.kind = "each"
    /\ thens[r].callback.index = 2
    /\ Len(thens[r].coll) = 2
    /\ thens[r].calls = 1
    /\ thens[r - 1].calls = 1

\* a step in which getResult() was called on instance i
GetResultCalled(i) ==
  /\ returned'.call = "getResult"
  /\ returned'.inst = i
  /\ <<raised, returned>>' # <<raised, returned>>
  /\ outputsDelivered' = outputsDelivered

\* this.result of instance i is no settled result with an output reply: {} on a fresh
\* instance, undefined after a rejection, a slot without output for a shell-only one
NoOutputReply(i) == result[i] <= 0 \/ solution[result[i]].output \in {"absent", "null"}

\* C23: getResult() raises synchronously whenever the instance holds no settled result
\* with an output reply: on a fresh instance, and after a last settled submission that
\* was shell-only or was rejected; it returns nothing then.
C23_GetResultRaisesWithoutOutput ==
  [][\A i \in Instances :
       GetResultCalled(i) /\ NoOutputReply(i)'
         => raised'.name = "typeError" /\ returned'.value = NoValue]_vars

C23_Witness ==
  \E i \in Instances :
    /\ returned = [call |-> "getResult", inst |-> i, value |-> NoValue]
    /\ raised = TypeError
    /\ result[i] > 0
    /\ promise[result[i]].state = "resolved"
    /\ solution[result[i]].output = "absent"

(***************************************************************************)
(* The scenarios of a submission whose final result carries a text.        *)
(***************************************************************************)
\* one submission per instance: code("a"), expectString() or not, execute()
NextScenario ==
  \/ \E i \in Readers : command[i] = 0 /\ Code(i, "a")
  \/ \E i \in Readers : ExpectString(i)
  \/ \E i \in Readers : command[i] = 0 /\ Execute(i)
  \/ \E i \in Readers : Then(i, GetResultCallback)
  \/ RunCatch
  \/ RunThen
  \/ \E s \in Subs : DeliverShellReply(s, "ok")
  \/ \E s \in Subs, text \in ScenarioTexts :
       DeliverOutputText(s, replyMessageTypes.executeResult, text)
  \/ \E s \in Subs : Tick(s)

SpecScenario == Init /\ [][NextScenario]_vars

\* a step in which a continuation of the resolved submission s calls getResult()
ReadsIn(s) ==
  /\ microtasks # <<>>
  /\ microtasks[1].type = "then"
  /\ microtasks[1].callback = GetResultCallback
  /\ microtasks[1].from = s
  /\ microtasks' = Tail(microtasks)
  /\ promise[s].state = "resolved"

\* a poll within the retry budget that finds both replies of the pending submission s,
\* whose code is not empty
PollsFilled(s) ==
  /\ promise[s].state = "pending"
  /\ solution[s].code # ""
  /\ solution[s].shell = "ok"
  /\ solution[s].output = replyMessageTypes.executeResult
  /\ timer[s] <= RetryBudget
  /\ timer'[s] = timer[s] + 1

\* C25: a submission made with expectString() that gets the completion reply ok and a
\* final result with the text 2 resolves at the next poll, and getResult() in its
\* continuation returns the string "2".
C25_PlainTextScenario ==
  [][\A s \in Subs :
       content[s].text = Two /\ ~content[s].json
         => /\ content[s].parsed = StringValue(Two)
            /\ PollsFilled(s) => promise'[s].state = "resolved"
            /\ ReadsIn(s) => /\ returned'.call = "getResult"
                             /\ returned'.value = StringValue(Two)
                             /\ raised' = NoError]_vars

C25_Witness ==
  \E s \in Subs :
    /\ content[s].text = Two
    /\ ~content[s].json
    /\ solution[s].shell = "ok"
    /\ promise[s].state = "resolved"
    /\ returned = [call |-> "getResult", inst |-> that[s].inst, value |-> StringValue(Two)]
    /\ thens # <<>> /\ thens[1].calls = 1 /\ thens[1].out = s

\* C26: a submission with JSON expected that gets the final result [{'a':1}], bare or
\* wrapped in one pair of quotes, and the completion reply ok resolves at the next
\* poll, and getResult() returns the array holding the object with a = 1.
C26_JSONScenario ==
  [][LET wrapped == {Rows, <<SingleQuote>> \o Rows \o <<SingleQuote>>,
                     <<DoubleQuote>> \o Rows \o <<DoubleQuote>>}
         rows == <<"array", "object", "string", "a", "end", "number", "1", "end", "end",
                   "end">>
     IN \A s \in Subs :
          content[s].text \in wrapped /\ content[s].json
            => /\ content[s].parsed = rows
               /\ PollsFilled(s) => promise'[s].state = "resolved"
               /\ ReadsIn(s) => /\ returned'.call = "getResult"
                                /\ returned'.value = rows
                                /\ raised' = NoError]_vars

C26_Witness ==
  \E s \in Subs :
    /\ content[s].text = <<SingleQuote>> \o Rows \o <<SingleQuote>>
    /\ content[s].json
    /\ solution[s].shell = "ok"
    /\ promise[s].state = "resolved"
    /\ returned.call = "getResult"
    /\ returned.value = content[s].parsed
    /\ Len(returned.value) = 10
    /\ thens # <<>> /\ thens[1].calls = 1 /\ thens[1].out = s

(***************************************************************************)
(* parseResult() as a function of the payload and of expectJSON.           *)
(***************************************************************************)
PayloadChars == {SingleQuote, DoubleQuote, Backslash, Slash, "a", "1", "[", "]"}
Payloads == UNION {[1..n -> PayloadChars] : n \in 0..MaxPayload}

\* one instance, one chain: code("a"), expectString() or not, execute(); parseResult()
\* is then called with every payload
NextParse ==
  \/ \E i \in Readers : command[i] = 0 /\ Code(i, "a")
  \/ \E i \in Readers : ExpectString(i)
  \/ \E i \in Readers : command[i] = 0 /\ Execute(i)
  \/ \E i \in Readers, text \in Payloads : ParseResult(i, text)

SpecParse == Init /\ [][NextParse]_vars

\* C27: for every payload that is already valid JSON text, parseResult() with JSON
\* expected returns the value the text denotes, the normalization leaving the text as
\* it is (so that normalizing twice equals normalizing once); a string with an embedded
\* single quote, backslash or slash decodes to the same string.
C27_ValidJSONParsesToItsValue ==
  (returned.call = "parseResult" /\ parseInput.json /\ JSONParse(parseInput.text).ok)
    => /\ raised = NoError
       /\ returned.value = JSONParse(parseInput.text).val
       /\ Normalize(parseInput.text) = parseInput.text

\* C28: the normalization removes characters from the ends of the payload only when its
\* first and last characters are both quotes, and then exactly that pair; with JSON not
\* expected the result is exactly the payload with single quotes turned into double
\* quotes, doubled escapes collapsed and that enclosing pair removed.
C28_UnwrapsQuotedLiteralsOnly ==
  (returned.call = "parseResult" /\ ~parseInput.json)
    => LET n == Normalize(parseInput.text)
           quoted == Len(n) >= 2 /\ n[1] = DoubleQuote /\ n[Len(n)] = DoubleQuote
       IN /\ raised = NoError
          /\ returned.value =
               StringValue(IF quoted THEN SubSeq(n, 2, Len(n) - 1) ELSE n)

\* C29: when JSON is expected and the normalized payload cannot be parsed, the parsing
\* error raised by parseResult() exposes the original raw payload.
C29_ParseFailureCarriesPayload ==
  (returned.call = "parseResult" /\ raised.name = "parsingError")
    => raised.payload = parseInput.text

(***************************************************************************)
(* Submissions made with stream(N), N up to the number of outputs sent.    *)
(***************************************************************************)
NextStream ==
  \/ \E i \in Readers : Code(i, "a")
  \/ \E i \in Readers, n \in 1..MaxOutputs : Stream(i, n)
  \/ \E i \in Readers : Execute(i)
  \/ RunCatch
  \/ \E s \in Subs, status \in ShellStatuses : DeliverShellReply(s, status)
  \/ \E s \in Subs, kind \in OutputKinds : DeliverOutputLogged(s, kind)
  \/ \E s \in Subs : Tick(s)

SpecStream == Init /\ [][NextStream]_vars

\* the output reply delivered to submission s in this step is an accepted one
AcceptedStep(s) ==
  /\ outputsDelivered'[s] = outputsDelivered[s] + 1
  /\ lastOutput' \in {replyMessageTypes.stream, replyMessageTypes.executeResult}

\* C30: with stream(N), N >= 1, the output field is filled by exactly the N-th accepted
\* output reply, stream and execute_result replies counted together and ignored kinds
\* not counted: accepted replies before the N-th do not fill it, later ones never
\* overwrite it, and a submission that got fewer than N accepted replies is not resolved.
C30_NthAcceptedReplyFills ==
  /\ [][\A s \in Subs :
          (Dispatched(s) /\ that[s].expectStreamIndex >= 1 /\ ~that[s].shellOnly
             /\ outputsDelivered'[s] = outputsDelivered[s] + 1)
            => /\ responseNumber'[s] =
                    IF AcceptedStep(s) THEN responseNumber[s] + 1 ELSE responseNumber[s]
               /\ solution'[s].output =
                    IF AcceptedStep(s) /\ responseNumber'[s] = that[s].expectStreamIndex
                    THEN lastOutput'
                    ELSE solution[s].output]_vars
  /\ [](\A s \in Subs :
          (that[s].expectStreamIndex >= 1 /\ ~that[s].shellOnly
             /\ responseNumber[s] < that[s].expectStreamIndex)
            => /\ solution[s].output = "null"
               /\ promise[s].state # "resolved")

C30_Witness ==
  \E s \in Subs :
    /\ that[s].expectStreamIndex = 2
    /\ responseNumber[s] = 2
    /\ outputsDelivered[s] = MaxOutputs
    /\ solution[s].output = replyMessageTypes.stream
    /\ promise[s].state = "resolved"

(***************************************************************************)
(* get getMsgId(): a promise of the handle kernel.execute returned, polled *)
(* every 50 ms until this.msgId is set.                                    *)
(***************************************************************************)
\* resolve(out) and reject() of the request's promise: only the first call settles it
ResolveRequest(r, out) ==
  IF r.state = "pending" THEN [r EXCEPT !.state = "resolved", !.value = out] ELSE r
RejectRequest(r) == IF r.state = "pending" THEN [r EXCEPT !.state = "rejected"] ELSE r

\* returnId(retry) on the request r of instance i: rejects beyond the budget and goes on;
\* hands out and clears this.msgId when it is set, re-arms the timer otherwise.  The
\* source counts the retries without end, the model stops one beyond the budget.
ReturnIdOutcome(r, i, retry) ==
  LET r1 == IF retry > MsgIdBudget THEN RejectRequest(r) ELSE r IN
  IF msgId[i] # 0
  THEN [request |-> [ResolveRequest(r1, msgId[i]) EXCEPT !.timer = FALSE],
        msgId |-> [msgId EXCEPT ![i] = 0]]
  ELSE [request |-> [r1 EXCEPT !.timer = TRUE,
                               !.retry = IF retry > MsgIdBudget THEN retry ELSE retry + 1],
        msgId |-> msgId]

\* kernel.getMsgId is read: new Promise(...) whose executor calls returnId()
GetMsgId(i) ==
  /\ turn = 0
  /\ request.state = "none"
  /\ LET out == ReturnIdOutcome([NoRequest EXCEPT !.state = "pending", !.inst = i], i, 0) IN
     /\ request' = out.request
     /\ msgId' = out.msgId
  /\ UNCHANGED <<jupyterKernelUniqueID, instVars, subVars, conts, microtasks, turn,
                 joinVars, thens, issued, lastOutput, resultVars, misuse, marked>>

\* setTimeout(() => returnId(retry + 1), 50) fires
ReturnId ==
  /\ turn = 0
  /\ microtasks = <<>>
  /\ request.timer
  /\ LET out == ReturnIdOutcome(request, request.inst, request.retry) IN
     /\ request' = out.request
     /\ msgId' = out.msgId
  /\ UNCHANGED <<jupyterKernelUniqueID, instVars, subVars, conts, microtasks, turn,
                 joinVars, thens, issued, lastOutput, resultVars, misuse, marked>>

\* submissions whose handle the caller reads through getMsgId
NextMsgId ==
  \/ \E i \in Instances, c \in Codes : Code(i, c)
  \/ \E i \in Instances : Execute(i)
  \/ \E i \in Instances : GetMsgId(i)
  \/ ReturnId
  \/ RunCatch
  \/ \E s \in Subs, status \in ShellStatuses : DeliverShellReply(s, status)
  \/ \E s \in Subs : Tick(s)

SpecMsgId == Init /\ [][NextMsgId]_vars

(***************************************************************************)
(* Submissions with caller-supplied reply handlers (setCallbacks).         *)
(***************************************************************************)
NextCallbacks ==
  \/ \E i \in Readers : Code(i, "a")
  \/ \E i \in Readers : Shell(i)
  \/ \E i \in Readers : SetCallbacks(i)
  \/ \E i \in Readers : Execute(i)
  \/ RunCatch
  \/ \E s \in Subs, status \in ShellStatuses : DeliverShellReply(s, status)
  \/ \E s \in Subs, kind \in OutputKinds : DeliverOutputLogged(s, kind)
  \/ \E s \in Subs : Tick(s)

SpecCallbacks == Init /\ [][NextCallbacks]_vars

\* C31: with handlers installed by setCallbacks, every completion reply and every output
\* reply of the submission is passed to the caller's handler, and the slot is filled and
\* the promise settled as without handlers: the completion reply is stored, an ok one
\* starts the poller and resolves a filled slot, another one rejects; an accepted output
\* reply is stored in the output field.
C31_HandlersCalledBesideBookkeeping ==
  [][\A s \in Subs :
       (Dispatched(s) /\ that[s].customCallbacks) =>
         /\ shellReply'[s] # shellReply[s] =>
              /\ customCalls'[s].reply = customCalls[s].reply + 1
              /\ solution'[s].shell = shellReply'[s]
              /\ shellReply'[s] = "ok" =>
                   /\ timer'[s] = 1
                   /\ promise'[s].state =
                        IF promise[s].state = "pending" /\ AllFilled(solution'[s])
                        THEN "resolved" ELSE promise[s].state
              /\ shellReply'[s] # "ok" =>
                   promise'[s].state =
                     IF promise[s].state = "pending" THEN "rejected" ELSE promise[s].state
         /\ outputsDelivered'[s] = outputsDelivered[s] + 1 =>
              /\ customCalls'[s].output = customCalls[s].output + 1
              /\ solution'[s].output =
                   IF ~that[s].shellOnly /\ lastOutput' = replyMessageTypes.executeResult
                   THEN lastOutput'
                   ELSE solution[s].output]_vars

C31_Witness ==
  \E s \in Subs :
    /\ that[s].customCallbacks
    /\ ~that[s].shellOnly
    /\ customCalls[s] = [reply |-> 1, output |-> MaxOutputs]
    /\ solution[s].output = replyMessageTypes.executeResult
    /\ promise[s].state = "resolved"

\* C32: the configuration of a submission is fixed when execute() is called: a submission
\* dispatched without stream() accepts execute_result only, so its output field never
\* holds a stream message, whatever stream() calls follow on the instance.
C32_AcceptedKindsFixedAtExecute ==
  \A s \in Subs :
    (Dispatched(s) /\ ~that[s].shellOnly /\ that[s].expectStreamIndex = 0)
      => solution[s].output # replyMessageTypes.stream

\* C33: the shell-only mark is consumed by the submission it was set for: an execute()
\* not preceded by shell() since the previous execute() of the instance dispatches a
\* submission that is not shell-only (it registers an output handler and its slot has an
\* output field), whether or not the completion reply of the earlier submission arrived.
C33_ShellMarkConsumedByOneSubmission ==
  [][\A i \in Instances :
       (_id'[i] # _id[i] /\ ~marked[i]) =>
         /\ ~that'[_id'[i]].shellOnly
         /\ solution'[_id'[i]].output # "absent"]_vars

\* C34: once a submission has resolved and its slot is this.result, the value getResult()
\* returns does not change when a further output reply of that submission is delivered.
C34_ResolvedResultIsStable ==
  [][\A s \in Subs :
       (/\ promise[s].state = "resolved"
        /\ result[that[s].inst] = s
        /\ outputsDelivered'[s] # outputsDelivered[s])
       => GetResultOutcome(s)' = GetResultOutcome(s)]_vars

(***************************************************************************)
(* Submissions with stream() and expectString(), joined with awaitAll.     *)
(***************************************************************************)
StreamKinds == {replyMessageTypes.stream, replyMessageTypes.executeResult}

NextSticky ==
  \/ \E i \in Readers : Code(i, "a")
  \/ \E i \in Readers, n \in 1..MaxStreamIndex : Stream(i, n)
  \/ \E i \in Readers : ExpectString(i)
  \/ \E i \in Readers : Execute(i)
  \/ AwaitAll(Readers)
  \/ RunCatch
  \/ RunAll
  \/ \E s \in Subs, status \in ShellStatuses : DeliverShellReply(s, status)
  \/ \E s \in Subs, kind \in StreamKinds : DeliverOutputLogged(s, kind)
  \/ \E s \in Subs : Tick(s)

SpecSticky == Init /\ [][NextSticky]_vars

\* a step of the call chain of instance i that leaves the code and the submissions alone:
\* stream(), expectString(), shell() or setCallbacks()
SettingStep(i) ==
  /\ turn = i
  /\ turn' = i
  /\ codeString' = codeString
  /\ _id' = _id

\* C35: stream(N) and expectString() are sticky: expectStreamIndex changes only in a
\* stream() call and expectJSON only in an expectString() call, which turns it off; no
\* code(), execute(), reply, settlement or awaitAll step resets them, and every
\* submission the instance dispatches takes the settings in force.
C35_ReplySettingsAreSticky ==
  [][\A i \in Instances :
       /\ expectStreamIndex'[i] # expectStreamIndex[i] =>
            SettingStep(i) /\ expectStreamIndex'[i] # 0
       /\ expectJSON'[i] # expectJSON[i] => SettingStep(i) /\ ~expectJSON'[i]
       /\ _id'[i] # _id[i] =>
            /\ that'[_id'[i]].expectStreamIndex = expectStreamIndex[i]
            /\ that'[_id'[i]].expectJSON = expectJSON[i]
            /\ expectStreamIndex'[i] = expectStreamIndex[i]
            /\ expectJSON'[i] = expectJSON[i]]_vars

C35_Witness ==
  \E s \in Subs, u \in Subs :
    /\ s < u
    /\ that[s].inst = that[u].inst
    /\ that[s].expectStreamIndex = 1 /\ ~that[s].expectJSON
    /\ that[u].expectStreamIndex = 1 /\ ~that[u].expectJSON
    /\ that[u].codeString = "a"
    /\ promise[s].state = "resolved"
    /\ allPromise.state = "fulfilled"

\* the text a with JSON expected: JSON.parse fails inside the output callback
Undecodable == <<"a">>

\* C36: a decoding failure inside the output callback does not reject the submission: the
\* delivery raises the parsing error and leaves the promise as it is and queues no
\* reaction, the output field holds the raw reply and its parsed field stays undefined;
\* the submission resolves at the poll that finds the completion reply ok, the catch
\* callback gets no error from it, and getResult() in a continuation returns null.
C36_DecodingFailureDoesNotReject ==
  [][\A s \in Subs :
       /\ (/\ outputsDelivered'[s] # outputsDelivered[s]
           /\ content'[s].text = Undecodable /\ content'[s].json)
          => /\ raised' = ParsingError
             /\ solution'[s].output = replyMessageTypes.executeResult
             /\ content'[s].parsed = Undefined
             /\ promise'[s] = promise[s]
             /\ microtasks' = microtasks
       /\ (content[s].text = Undecodable /\ content[s].json)
          => /\ PollsFilled(s) => promise'[s].state = "resolved"
             /\ promise[s].state = "resolved" => caught'[s] = "none"
             /\ ReadsIn(s) => /\ returned'.call = "getResult"
                              /\ returned'.value = Null
                              /\ raised' = NoError]_vars

C36_Witness ==
  \E s \in Subs :
    /\ content[s].text = Undecodable
    /\ content[s].json
    /\ content[s].parsed = Undefined
    /\ solution[s].shell = "ok"
    /\ promise[s].state = "resolved"
    /\ caught[s] = "none"
    /\ returned = [call |-> "getResult", inst |-> that[s].inst, value |-> Null]
    /\ thens # <<>> /\ thens[1].calls = 1 /\ thens[1].out = s

\* the poller of submission s runs in this step with a retry number within the budget:
\* called by the completion callback on an ok reply, or by its timer
ChecksInBudget(s) ==
  \/ shellReply[s] = "none" /\ shellReply'[s] = "ok"
  \/ timer[s] >= 1 /\ timer[s] <= RetryBudget /\ timer'[s] = timer[s] + 1

\* the poller of submission s runs with the first retry number beyond the budget
ChecksBeyondBudget(s) == timer[s] = RetryBudget + 1 /\ timer'[s] = timer[s] + 1

TimedOut == [state |-> "rejected", value |-> "timeoutError"]

\* C37: a submission whose code is the empty string never resolves; with the completion
\* reply ok and the output reply both delivered it stays pending through every poll and
\* is rejected with the timeout error by the first poll beyond the budget.
C37_EmptyCodeNeverResolves ==
  [][\A s \in Subs :
       (Dispatched(s) /\ solution[s].code = "") =>
         /\ promise'[s].state # "resolved"
         /\ (Pending(s) /\ ChecksInBudget(s)) => promise'[s].state = "pending"
         /\ (Pending(s) /\ ChecksBeyondBudget(s)) => promise'[s] = TimedOut]_vars

C37_Witness ==
  \E s \in Subs :
    /\ solution[s].code = ""
    /\ solution[s].shell = "ok"
    /\ solution[s].output = replyMessageTypes.executeResult
    /\ promise[s] = TimedOut

\* C38: the timeout budget starts at the ok completion reply: no poll runs and no timeout
\* happens before it.  A pending submission resolves exactly at a poll with a retry
\* number within the budget that finds every field of the slot filled; the first poll
\* beyond the budget rejects it with the timeout error, even when the slot is filled.
C38_PollBudget ==
  [][\A s \in Subs :
       Pending(s) =>
         /\ shellReply[s] # "ok" => timer[s] = 0
         /\ promise'[s].state = "resolved"
              <=> (ChecksInBudget(s) /\ AllFilled(solution'[s]))
         /\ promise'[s] = TimedOut <=> ChecksBeyondBudget(s)]_vars

C38_Witness ==
  \E s \in Subs :
    /\ promise[s] = TimedOut
    /\ AllFilled(solution[s])
    /\ timer[s] = RetryBudget + 2

\* C39: the tick that resolves awaitAll(instances, true) sets the doneFlag of every
\* listed instance to false and leaves the other instances' flags alone; the tick that
\* rejects it for exceeding the budget leaves every flag as it is.
C39_FlagsResetOnResolveOnly ==
  [][awaiting.state = "pending" =>
       /\ awaiting'.state = "resolved" =>
            \A i \in Instances :
              doneFlag'[i] = IF i \in awaiting.instances THEN FALSE ELSE doneFlag[i]
       /\ awaiting'.state = "rejected" => doneFlag' = doneFlag]_vars

C39_Witness ==
  /\ awaiting.state = "rejected"
  /\ awaiting.instances = Instances
  /\ \E i \in Instances : doneFlag[i]
  /\ \E i \in Instances : ~doneFlag[i]

\* C40: a getMsgId request that was rejected for exceeding its retries polls no more, and
\* a stored handle is cleared only by the step that resolves a request with that handle:
\* a rejected request never clears the handle a later execute() stores.
C40_RejectedRequestStopsPolling ==
  [][/\ request'.state = "rejected" => ~request'.timer
     /\ \A i \in Instances :
          (msgId[i] # 0 /\ msgId'[i] = 0) =>
            /\ request.state # "resolved"
            /\ request'.state = "resolved"
            /\ request'.value = msgId[i]]_vars

====
